---- MODULE Spec2Model ----
(***************************************************************************)
(* A model of helper.py of plex-playlist-sync: the Spotify page reader     *)
(* (get_sp_playlist_tracks), the track matcher (get_available_plex_tracks) *)
(* and the playlist writer (create_plex_playlist), each as a state machine *)
(* whose steps are the statements of the function, with the remote         *)
(* services (Spotify, Plex) as nondeterministic environments.              *)
(***************************************************************************)
EXTENDS Integers, Sequences, FiniteSets, TLC

VARIABLES
    \* ---- get_sp_playlist_tracks ----
    pages,        \* the source playlist as the service serves it: a chain of pages
    rpc,          \* position in get_sp_playlist_tracks
    results,      \* index of the page held by the local `results` (0: none yet)
    tracks,       \* the local list `tracks`
    requests,     \* history: indices of the pages requested, in order
    \* ---- get_available_plex_tracks ----
    mpc,          \* position in get_available_plex_tracks
    track,        \* loop variable `track` (a title: a sequence of characters)
    artist,       \* loop variable `artist` (a sequence of characters)
    search,       \* the local `search`: the current result list
    k,            \* number of candidates of `search` the for-loop has taken
    musicTracks,  \* the accumulating output list
    nIn,          \* history: number of pairs taken from trackZip
    origin,       \* history: for each element of musicTracks, the pair that added it
    queries,      \* history: the queries sent to plex.search for the current pair
    first,        \* history: outcome of the current pair's first search
    skipped,      \* history: IndexError log lines written for the current pair
    taken,        \* history: the artists of the pairs taken from trackZip, in order
    \* ---- create_plex_playlist ----
    store,        \* the playlists the target server holds, oldest first
    wpc,          \* position in create_plex_playlist
    tracksList,   \* argument tracksList
    playlistName, \* argument playlistName
    plexPlaylist, \* the local `plexPlaylist` (id of the playlist found, 0: unbound)
    calls,        \* history: the target calls of this invocation, with outcomes
    werr,         \* the error that left create_plex_playlist ("" when none)
    nextId,       \* the id the server gives the next playlist it creates
    \* ---- a sync run: matcher, then writer, twice ----
    source,       \* the source playlist's (title, artist) pairs
    catalog,      \* the deterministic catalog: query -> outcome, as far as asked
    run,          \* which run is executing (0: not a sync execution)
    after1        \* history: the target's playlists when run 1 returned

readerVars  == <<pages, rpc, results, tracks, requests>>
matcherVars == <<mpc, track, artist, search, k, musicTracks, nIn, origin,
                 queries, first, skipped, taken>>
writerVars  == <<store, wpc, tracksList, playlistName, plexPlaylist, calls,
                 werr, nextId>>
syncVars    == <<source, catalog, run, after1>>
vars        == <<readerVars, matcherVars, writerVars, syncVars>>

SeqsUpTo(S, n) == UNION {[1..m -> S] : m \in 0..n}

Last(s) == s[Len(s)]

RECURSIVE Flatten(_)
Flatten(ss) == IF ss = <<>> THEN <<>> ELSE Head(ss) \o Flatten(Tail(ss))

(***************************************************************************)
(* Bounds of the model.                                                    *)
(***************************************************************************)
MaxPages    == 3   \* pages of a source playlist
MaxPageLen  == 2   \* items on one page
MaxPairs    == 2   \* pairs the matcher takes from trackZip
MaxResults  == 2   \* candidates in one search result
MaxListLen  == 2   \* tracks handed to the playlist writer
MaxSource   == 2   \* pairs of the source playlist of a sync run

(***************************************************************************)
(* get_sp_playlist_tracks (helper.py 27-43)                                *)
(***************************************************************************)
Items == {"i1", "i2"}

None == 0

\* A finite chain of pages: page i continues at page i+1, the last at None.
PageChain(its) ==
    [i \in DOMAIN its |-> [items |-> its[i],
                           next  |-> IF i < Len(its) THEN i + 1 ELSE None]]

ReaderIdle ==
    /\ pages = <<>> /\ rpc = "idle" /\ results = 0
    /\ tracks = <<>> /\ requests = <<>>

ReaderInit ==
    /\ \E n \in 1..MaxPages :
          \E its \in [1..n -> SeqsUpTo(Items, MaxPageLen)] : pages = PageChain(its)
    /\ rpc = "start" /\ results = 0 /\ tracks = <<>> /\ requests = <<>>

\* tracks.extend(items)
ExtendOverwrites(ts, items) == items

Extend(ts, items) == ts \o items

\* results = sp.user_playlist_tracks(userId, playlistId); tracks = results['items']
RdFirst ==
    /\ rpc = "start"
    /\ results' = 1
    /\ tracks' = pages[1].items
    /\ requests' = Append(requests, 1)
    /\ rpc' = "while"
    /\ UNCHANGED pages

\* while results['next']: results = sp.next(results); tracks.extend(results['items'])
RdNext ==
    /\ rpc = "while"
    /\ pages[results].next # None
    /\ results' = pages[results].next
    /\ tracks' = Extend(tracks, pages[results'].items)
    /\ requests' = Append(requests, results')
    /\ UNCHANGED <<pages, rpc>>

\* the while condition is false: return tracks
RdReturn ==
    /\ rpc = "while"
    /\ pages[results].next = None
    /\ rpc' = "done"
    /\ UNCHANGED <<pages, results, tracks, requests>>

othersOfReader == <<matcherVars, writerVars, syncVars>>

RFirst == RdFirst /\ UNCHANGED othersOfReader

RNext == RdNext /\ UNCHANGED othersOfReader

RReturn == RdReturn /\ UNCHANGED othersOfReader

ReaderNext == RFirst \/ RNext \/ RReturn

(***************************************************************************)
(* get_available_plex_tracks (helper.py 84-116)                            *)
(***************************************************************************)
\* Titles and artist names are sequences of characters.
Titles ==
    { <<"a">>, <<"(", "a">>, <<"a", "(", "b">>, <<"a", "(", "b", "(", "c">> }

Artists == { <<"A", "b">>, <<"c", "d">> }

Pairs == Titles \X Artists

\* The tracks of the target catalog. Track.artist() of t4 raises IndexError.
Tracks == {"t1", "t2", "t3", "t4"}

HasArtist(t) == t # "t4"

ArtistOf(t) ==
    CASE t = "t1" -> <<"A", "b">>
      [] t = "t2" -> <<"a", "B">>
      [] t = "t3" -> <<"c", "d">>

\* limit=5 of plex.search
SearchLimit == 5

ResultLists ==
    SeqsUpTo(Tracks, IF MaxResults < SearchLimit THEN MaxResults ELSE SearchLimit)

\* What one plex.search call does: raise BadRequest, or return a result list.
BadRequest == [bad |-> TRUE, res |-> <<>>]

Outcomes == {BadRequest} \cup {[bad |-> FALSE, res |-> r] : r \in ResultLists}

\* str.lower()
LowerChar(c) ==
    CASE c = "A" -> "a"
      [] c = "B" -> "b"
      [] c = "C" -> "c"
      [] c = "D" -> "d"
      [] OTHER -> c

Lower(str) == [i \in DOMAIN str |-> LowerChar(str[i])]

\* s.artist().title.lower() == artist.lower()
ArtistEqualsExactly(s, a) == ArtistOf(s) = a

ArtistEquals(s, a) == Lower(ArtistOf(s)) = Lower(a)

\* track.split('(')[0]: the characters before the first '('
RECURSIVE SplitParen(_)
SplitAtLastParen(title) ==
    IF \E i \in DOMAIN title : title[i] = "("
    THEN SubSeq(title, 1,
                (CHOOSE i \in DOMAIN title :
                    /\ title[i] = "("
                    /\ \A j \in DOMAIN title : title[j] = "(" => j <= i) - 1)
    ELSE title

SplitParen(title) ==
    IF title = <<>> \/ Head(title) = "("
    THEN <<>>
    ELSE <<Head(title)>> \o SplitParen(Tail(title))

\* `break` after musicTracks.extend(s) (line 111)
OnMatchContinue == "continue"

OnMatch == "break"

\* `except IndexError:` logs; the for loop goes on with the next candidate
OnIndexErrorBreak == "break"

OnIndexError == "continue"

\* `if not search:` (line 102)
FallbackNeeded(res) == res = <<>>

MatcherIdle ==
    /\ mpc = "idle" /\ track = <<>> /\ artist = <<>> /\ search = <<>> /\ k = 0
    /\ musicTracks = <<>> /\ nIn = 0 /\ origin = <<>> /\ queries = <<>>
    /\ first = "none" /\ skipped = 0 /\ taken = <<>>

\* musicTracks = []
MatcherInit ==
    /\ mpc = "loop" /\ track = <<>> /\ artist = <<>> /\ search = <<>> /\ k = 0
    /\ musicTracks = <<>> /\ nIn = 0 /\ origin = <<>> /\ queries = <<>>
    /\ first = "none" /\ skipped = 0 /\ taken = <<>>

\* for track, artist in trackZip: the iterator yields p;
\* try: search = plex.search(track, ...) except BadRequest: search = []
Search1(p, o) ==
    /\ mpc = "loop"
    /\ track' = p[1]
    /\ artist' = p[2]
    /\ search' = IF o.bad THEN <<>> ELSE o.res
    /\ mpc' = "if_not_search"
    /\ k' = 0
    /\ nIn' = nIn + 1
    /\ taken' = Append(taken, p[2])
    /\ queries' = <<p[1]>>
    /\ first' = IF o.bad THEN "bad" ELSE IF o.res = <<>> THEN "empty" ELSE "hit"
    /\ skipped' = 0
    /\ UNCHANGED <<musicTracks, origin>>

\* if not search: search = plex.search(track.split('(')[0], ...)   (no try here)
\* then `if search:` decides whether the for loop is entered
Fallback(o) ==
    /\ mpc = "if_not_search"
    /\ FallbackNeeded(search)
    /\ queries' = Append(queries, SplitParen(track))
    /\ IF o.bad
       THEN mpc' = "raised" /\ UNCHANGED search
       ELSE /\ search' = o.res
            /\ mpc' = IF o.res # <<>> THEN "for" ELSE "loop"
    /\ UNCHANGED <<track, artist, k, musicTracks, nIn, origin, first, skipped,
                   taken>>

\* `if not search` is false; `if search:` is true: enter the for loop
NoFallback ==
    /\ mpc = "if_not_search"
    /\ ~FallbackNeeded(search)
    /\ mpc' = IF search # <<>> THEN "for" ELSE "loop"
    /\ UNCHANGED <<track, artist, search, k, musicTracks, nIn, origin, queries,
                   first, skipped, taken>>

\* one iteration of `for s in search:` (lines 107-115)
\* musicTracks.extend(s): a plexapi object iterates as itself, so s is appended
Candidate ==
    /\ mpc = "for"
    /\ LET s   == search[k + 1]
           hit == HasArtist(s) /\ ArtistEquals(s, artist)
           ctl == IF ~HasArtist(s) THEN OnIndexError
                  ELSE IF hit THEN OnMatch ELSE "continue"
       IN  /\ k' = k + 1
           /\ skipped' = IF HasArtist(s) THEN skipped ELSE skipped + 1
           /\ musicTracks' = IF hit THEN Append(musicTracks, s) ELSE musicTracks
           /\ origin' = IF hit THEN Append(origin, nIn) ELSE origin
           /\ mpc' = IF ctl = "break" \/ k + 1 = Len(search) THEN "loop" ELSE "for"
    /\ UNCHANGED <<track, artist, search, nIn, queries, first, taken>>

\* trackZip is exhausted: return musicTracks
Return ==
    /\ mpc = "loop"
    /\ mpc' = "done"
    /\ UNCHANGED <<track, artist, search, k, musicTracks, nIn, origin, queries,
                   first, skipped, taken>>

othersOfMatcher == <<readerVars, writerVars, syncVars>>

\* trackZip yields any pair, or is exhausted, at each turn of the loop
MSearch1 ==
    /\ nIn < MaxPairs
    /\ \E p \in Pairs, o \in Outcomes : Search1(p, o)
    /\ UNCHANGED othersOfMatcher

MFallback == (\E o \in Outcomes : Fallback(o)) /\ UNCHANGED othersOfMatcher

MNoFallback == NoFallback /\ UNCHANGED othersOfMatcher

MCandidate == Candidate /\ UNCHANGED othersOfMatcher

MReturn == Return /\ UNCHANGED othersOfMatcher

MatcherNext == MSearch1 \/ MFallback \/ MNoFallback \/ MCandidate \/ MReturn

(***************************************************************************)
(* create_new_plex_playlist, create_plex_playlist (helper.py 119-147)      *)
(***************************************************************************)
Names == {"Synced", "Other"}

OldLists == { <<"t1">>, <<"t2", "t3">> }

\* Target states: at most one playlist of a name, ids in order of creation.
InitStores ==
    { st \in SeqsUpTo([title : Names, items : OldLists], 2) :
        \A i, j \in DOMAIN st : st[i].title = st[j].title => i = j }

WithIds(st) ==
    [i \in DOMAIN st |-> [id |-> i, title |-> st[i].title, items |-> st[i].items]]

\* What a call to the target does: succeed, raise NotFound, or raise another error.
OtherErrors == {"BadRequest", "Unauthorized"}

CallOutcomes == {"ok", "NotFound"} \cup OtherErrors

Named(st, name) == SelectSeq(st, LAMBDA p : p.title = name)

\* plexPlaylist.delete(): the server drops the playlist
RemoveNothing(st, id) == st

RemovePlaylist(st, id) == SelectSeq(st, LAMBDA p : p.id # id)

\* plex.createPlaylist(title=playlistName, items=tracksList)
CreateNewPlexPlaylist(st, id, name, items) ==
    Append(st, [id |-> id, title |-> name, items |-> items])

\* `except NotFound:` (line 145)
CaughtAnyError(err) == TRUE

Caught(err) == err = "NotFound"

\* Where control goes when a statement of the try block raises err.
RaiseInTry(err) ==
    IF Caught(err)
    THEN wpc' = "except_create" /\ werr' = ""
    ELSE wpc' = "raised" /\ werr' = err

WriterIdle ==
    /\ store = <<>> /\ wpc = "idle" /\ tracksList = <<>> /\ playlistName = ""
    /\ plexPlaylist = 0 /\ calls = <<>> /\ werr = "" /\ nextId = 1

WriterInit ==
    /\ store \in {WithIds(st) : st \in InitStores}
    /\ nextId = Len(store) + 1
    /\ playlistName \in Names
    /\ tracksList \in SeqsUpTo(Tracks, MaxListLen)
    /\ wpc = "lookup" /\ plexPlaylist = 0 /\ calls = <<>> /\ werr = ""

\* plexPlaylist = plex.playlist(playlistName)   (line 139)
Lookup(out) ==
    /\ wpc = "lookup"
    /\ calls' = Append(calls, <<"lookup", out>>)
    /\ IF out = "ok"
       THEN /\ Named(store, playlistName) # <<>>
            /\ plexPlaylist' = Named(store, playlistName)[1].id
            /\ wpc' = "delete" /\ werr' = ""
       ELSE /\ out = "NotFound" => Named(store, playlistName) = <<>>
            /\ RaiseInTry(out)
            /\ UNCHANGED plexPlaylist
    /\ UNCHANGED <<store, tracksList, playlistName, nextId>>

\* plexPlaylist.delete()   (line 140)
\* NotFound: the playlist is gone from the server when the request arrives.
Delete(out) ==
    /\ wpc = "delete"
    /\ calls' = Append(calls, <<"delete", out>>)
    /\ IF out = "ok"
       THEN /\ store' = RemovePlaylist(store, plexPlaylist)
            /\ wpc' = "try_create" /\ werr' = ""
       ELSE /\ store' = IF out = "NotFound"
                        THEN SelectSeq(store, LAMBDA p : p.id # plexPlaylist)
                        ELSE store
            /\ RaiseInTry(out)
    /\ UNCHANGED <<tracksList, playlistName, plexPlaylist, nextId>>

\* create_new_plex_playlist(plex, tracksList, playlistName) inside try (line 142)
CreateInTry(out) ==
    /\ wpc = "try_create"
    /\ calls' = Append(calls, <<"create", out>>)
    /\ IF out = "ok"
       THEN /\ store' = CreateNewPlexPlaylist(store, nextId, playlistName, tracksList)
            /\ nextId' = nextId + 1
            /\ wpc' = "done" /\ werr' = ""
       ELSE /\ RaiseInTry(out)
            /\ UNCHANGED <<store, nextId>>
    /\ UNCHANGED <<tracksList, playlistName, plexPlaylist>>

\* create_new_plex_playlist(plex, tracksList, playlistName) in the handler (line 146)
CreateInExcept(out) ==
    /\ wpc = "except_create"
    /\ calls' = Append(calls, <<"create", out>>)
    /\ IF out = "ok"
       THEN /\ store' = CreateNewPlexPlaylist(store, nextId, playlistName, tracksList)
            /\ nextId' = nextId + 1
            /\ wpc' = "done" /\ werr' = ""
       ELSE /\ wpc' = "raised" /\ werr' = out
            /\ UNCHANGED <<store, nextId>>
    /\ UNCHANGED <<tracksList, playlistName, plexPlaylist>>

othersOfWriter == <<readerVars, matcherVars, syncVars>>

WLookup == (\E out \in CallOutcomes : Lookup(out)) /\ UNCHANGED othersOfWriter

WDelete == (\E out \in CallOutcomes : Delete(out)) /\ UNCHANGED othersOfWriter

WCreateInTry ==
    (\E out \in CallOutcomes : CreateInTry(out)) /\ UNCHANGED othersOfWriter

WCreateInExcept ==
    (\E out \in CallOutcomes : CreateInExcept(out)) /\ UNCHANGED othersOfWriter

WriterNext == WLookup \/ WDelete \/ WCreateInTry \/ WCreateInExcept

(***************************************************************************)
(* A sync: get_available_plex_tracks, then create_plex_playlist on its     *)
(* result, run twice on the same source against a deterministic catalog.   *)
(***************************************************************************)
SyncPairs == { <<"a">>, <<"a", "(", "b">> } \X Artists

SyncOutcomes ==
    { BadRequest,
      [bad |-> FALSE, res |-> <<>>],
      [bad |-> FALSE, res |-> <<"t1">>],
      [bad |-> FALSE, res |-> <<"t4", "t2">>],
      [bad |-> FALSE, res |-> <<"t3", "t1">>] }

SyncIdle == source = <<>> /\ catalog = <<>> /\ run = 0 /\ after1 = <<>>

\* The catalog answers a query it has answered before the same way.
Answers(q, o) == q \in DOMAIN catalog => catalog[q] = o

Remember(q, o) ==
    [x \in DOMAIN catalog \cup {q} |-> IF x = q THEN o ELSE catalog[x]]

SyncInit ==
    /\ source \in SeqsUpTo(SyncPairs, MaxSource)
    /\ catalog = <<>> /\ run = 1 /\ after1 = <<>>
    /\ MatcherInit
    /\ store \in { WithIds(st) : st \in {s \in InitStores : Len(s) <= 1} }
    /\ nextId = Len(store) + 1
    /\ playlistName = "Synced"
    /\ tracksList = <<>> /\ wpc = "idle" /\ plexPlaylist = 0
    /\ calls = <<>> /\ werr = ""

SSearch1 ==
    /\ nIn < Len(source)
    /\ \E o \in SyncOutcomes :
          /\ Answers(source[nIn + 1][1], o)
          /\ Search1(source[nIn + 1], o)
          /\ catalog' = Remember(source[nIn + 1][1], o)
    /\ UNCHANGED <<readerVars, writerVars, source, run, after1>>

SFallback ==
    /\ \E o \in SyncOutcomes :
          /\ Answers(SplitParen(track), o)
          /\ Fallback(o)
          /\ catalog' = Remember(SplitParen(track), o)
    /\ UNCHANGED <<readerVars, writerVars, source, run, after1>>

SNoFallback == NoFallback /\ UNCHANGED <<readerVars, writerVars, syncVars>>

SCandidate == Candidate /\ UNCHANGED <<readerVars, writerVars, syncVars>>

\* get_available_plex_tracks returns; create_plex_playlist is called on its result
SReturnAndWrite ==
    /\ nIn = Len(source)
    /\ Return
    /\ wpc = "idle"
    /\ wpc' = "lookup" /\ tracksList' = musicTracks
    /\ plexPlaylist' = 0 /\ calls' = <<>> /\ werr' = ""
    /\ UNCHANGED <<store, playlistName, nextId, syncVars, readerVars>>

SLookup == (\E out \in CallOutcomes : Lookup(out)) /\ UNCHANGED othersOfWriter

SDelete == (\E out \in CallOutcomes : Delete(out)) /\ UNCHANGED othersOfWriter

SCreateInTry ==
    (\E out \in CallOutcomes : CreateInTry(out)) /\ UNCHANGED othersOfWriter

SCreateInExcept ==
    (\E out \in CallOutcomes : CreateInExcept(out)) /\ UNCHANGED othersOfWriter

\* create_plex_playlist returned: the second run starts
SSecondRun ==
    /\ run = 1 /\ wpc = "done"
    /\ run' = 2 /\ after1' = store
    /\ mpc' = "loop" /\ track' = <<>> /\ artist' = <<>> /\ search' = <<>>
    /\ k' = 0 /\ musicTracks' = <<>> /\ nIn' = 0 /\ origin' = <<>>
    /\ queries' = <<>> /\ first' = "none" /\ skipped' = 0 /\ taken' = <<>>
    /\ wpc' = "idle"
    /\ UNCHANGED <<store, tracksList, playlistName, plexPlaylist, calls, werr,
                   nextId, source, catalog, readerVars>>

SyncNext ==
    \/ SSearch1 \/ SFallback \/ SNoFallback \/ SCandidate \/ SReturnAndWrite
    \/ SLookup \/ SDelete \/ SCreateInTry \/ SCreateInExcept \/ SSecondRun

(***************************************************************************)
(* Specifications                                                          *)
(***************************************************************************)
ReaderStart == ReaderInit /\ MatcherIdle /\ WriterIdle /\ SyncIdle

ReaderSpec == ReaderStart /\ [][ReaderNext]_vars

MatcherStart == ReaderIdle /\ MatcherInit /\ WriterIdle /\ SyncIdle

MatcherSpec == MatcherStart /\ [][MatcherNext]_vars

WriterStart == ReaderIdle /\ MatcherIdle /\ WriterInit /\ SyncIdle

WriterSpec == WriterStart /\ [][WriterNext]_vars

SyncStart == ReaderIdle /\ SyncInit

SyncSpec == SyncStart /\ [][SyncNext]_vars

(***************************************************************************)
(* Properties                                                              *)
(***************************************************************************)
Min(S) == CHOOSE x \in S : \A y \in S : x <= y

\* Two names are equal when letter case is ignored.
CaseTwins == { {"a", "A"}, {"b", "B"}, {"c", "C"}, {"d", "D"} }

SameIgnoringCase(a, b) ==
    /\ Len(a) = Len(b)
    /\ \A i \in DOMAIN a : a[i] = b[i] \/ {a[i], b[i]} \in CaseTwins

\* The current pair has been fully processed.
PairDone == nIn > 0 /\ mpc \in {"loop", "done"}

\* The candidates of the current result list that pass the artist check.
Matching ==
    { i \in DOMAIN search :
        HasArtist(search[i]) /\ SameIgnoringCase(ArtistOf(search[i]), artist) }

\* The positions of musicTracks that the current pair added.
Added == { j \in DOMAIN origin : origin[j] = nIn }

\* q is the part of title before its first '('.
PrefixBeforeParen(q, title) ==
    /\ Len(q) <= Len(title)
    /\ q = SubSeq(title, 1, Len(q))
    /\ \A i \in DOMAIN q : q[i] # "("
    /\ Len(q) < Len(title) => title[Len(q) + 1] = "("

CallsOf(op) == { i \in DOMAIN calls : calls[i][1] = op }

ItemsOf(st, name) == [i \in DOMAIN Named(st, name) |-> Named(st, name)[i].items]

\* C1: when create_plex_playlist returns normally the target holds exactly one
\* playlist named playlistName, its tracks are tracksList in the given order
\* (the empty list included), and a playlist of that name found at the start
\* is gone, its tracks not merged into the new one.
C1_ReplaceSemantics ==
    wpc = "done" =>
        /\ Len(Named(store, playlistName)) = 1
        /\ Named(store, playlistName)[1].items = tracksList
        /\ Named(store, playlistName)[1].id = nextId - 1
        /\ plexPlaylist # 0 => \A i \in DOMAIN store : store[i].id # plexPlaylist

C1_Witness ==
    /\ wpc = "done" /\ plexPlaylist # 0 /\ tracksList = <<>>
    /\ Len(store) = 2 /\ Len(calls) = 3

\* C2: the list get_available_plex_tracks builds is never longer than the
\* number of pairs taken, each pair adds zero or one track, the tracks stand in
\* the order of the pairs that added them, and each track is one whose artist
\* is the artist of its pair up to letter case.
C2_OrderPreservedNeverLonger ==
    /\ Len(musicTracks) <= nIn
    /\ Len(origin) = Len(musicTracks)
    /\ \A i \in DOMAIN origin : origin[i] \in 1..nIn
    /\ \A i, j \in DOMAIN origin : i < j => origin[i] < origin[j]
    /\ \A i \in DOMAIN musicTracks :
          /\ HasArtist(musicTracks[i])
          /\ SameIgnoringCase(ArtistOf(musicTracks[i]), taken[origin[i]])

C2_Witness ==
    /\ mpc = "done" /\ nIn = 2 /\ musicTracks = <<"t1">> /\ origin = <<1>>
    /\ taken = << <<"A", "b">>, <<"c", "d">> >> /\ search # <<>>

\* C3: a BadRequest raised by plex.search while a track is matched never leaves
\* get_available_plex_tracks: it counts as an empty result list and the
\* function goes on with the fallback and the remaining pairs.
C3_BadRequestNeverPropagates ==
    /\ mpc # "raised"
    /\ (first = "bad" /\ mpc = "if_not_search") => search = <<>>

\* C4: for a pair whose result list is non-empty, the track added is the
\* earliest candidate whose artist equals the requested artist ignoring letter
\* case, no candidate after it is examined, and when no candidate passes
\* nothing is added and no error is raised.
C4_FirstMatchWins ==
    /\ mpc = "raised" => search = <<>>
    /\ mpc = "for" => \A i \in 1..k : i \notin Matching
    /\ (PairDone /\ search # <<>>) =>
          IF Matching = {}
          THEN Added = {} /\ k = Len(search)
          ELSE /\ Added = {Len(musicTracks)}
               /\ Last(musicTracks) = search[Min(Matching)]
               /\ k = Min(Matching)

C4_Witness ==
    /\ PairDone /\ artist = <<"A", "b">> /\ search = <<"t2", "t1">>
    /\ Added # {} /\ Last(musicTracks) = "t2" /\ k = 1

\* C5: when the sync (matcher, then writer) has run twice on the same source
\* against an unchanged deterministic catalog, the playlists of that name on
\* the target after the second run are those after the first run: one
\* playlist, with the same tracks in the same order.
C5_SyncIdempotent ==
    (run = 2 /\ wpc = "done") =>
        /\ Len(Named(store, playlistName)) = 1
        /\ ItemsOf(store, playlistName) = ItemsOf(after1, playlistName)

C5_Witness ==
    /\ run = 2 /\ wpc = "done" /\ Len(tracksList) = 2
    /\ calls = << <<"lookup", "ok">>, <<"delete", "ok">>, <<"create", "ok">> >>

\* C6: get_sp_playlist_tracks requests the pages of a finite chain in page
\* order, each exactly once, can always take a step until it has returned
\* (so it returns after the last page), and returns the concatenation of the
\* items of all pages.
C6_PaginationComplete ==
    /\ requests = [i \in 1..Len(requests) |-> i]
    /\ Len(requests) <= Len(pages)
    /\ rpc \in {"start", "while"} => ENABLED ReaderNext
    /\ rpc = "done" =>
          /\ Len(requests) = Len(pages)
          /\ tracks = Flatten([i \in DOMAIN pages |-> pages[i].items])

C6_Witness ==
    /\ rpc = "done" /\ Len(pages) = 3 /\ pages[2].items = <<>>
    /\ tracks = <<"i1", "i2", "i2", "i1">>

\* C7: for each pair the first query is the title; the fallback query is sent
\* exactly when the first search gave no results (empty or BadRequest), at most
\* once, and it is the title up to its first '('; a pair whose first search
\* gave results of which none passes the artist check gets no fallback query
\* and adds nothing.
C7_FallbackExactlyWhenEmpty ==
    nIn > 0 =>
        /\ Len(queries) \in {1, 2}
        /\ queries[1] = track
        /\ mpc = "if_not_search" => Len(queries) = 1
        /\ mpc # "if_not_search" =>
              (Len(queries) = 2 <=> first \in {"bad", "empty"})
        /\ Len(queries) = 2 => PrefixBeforeParen(queries[2], track)
        /\ (PairDone /\ first = "hit" /\ Matching = {}) =>
              Added = {} /\ Len(queries) = 1

C7_Witness ==
    /\ PairDone /\ first = "empty"
    /\ queries = << <<"a", "(", "b", "(", "c">>, <<"a">> >>
    /\ Added # {}

\* C8: an error other than NotFound raised by the lookup or the deletion leaves
\* create_plex_playlist as that same error, as the last target call, with no
\* create call made; and a create call not preceded by a successful delete is
\* preceded by a NotFound.
C8_NarrowFailureScope ==
    /\ \A i \in DOMAIN calls :
          (calls[i][1] \in {"lookup", "delete"} /\ calls[i][2] \in OtherErrors) =>
              /\ i = Len(calls)
              /\ wpc = "raised" /\ werr = calls[i][2]
              /\ CallsOf("create") = {}
    /\ \A i \in CallsOf("create") :
          (\A j \in 1..(i - 1) : calls[j] # <<"delete", "ok">>) =>
              \E j \in 1..(i - 1) : calls[j][2] = "NotFound"

C8_Witness ==
    /\ wpc = "raised" /\ werr = "Unauthorized"
    /\ calls = << <<"lookup", "ok">>, <<"delete", "Unauthorized">> >>

\* C9: a candidate whose artist lookup raises IndexError is logged and skipped:
\* the loop goes on to the candidates after it, a later candidate that passes
\* the artist check is still added, and the function does not raise.
C9_MissingArtistSkipped ==
    /\ skipped > 0 => mpc \in {"for", "loop", "done"}
    /\ skipped = Cardinality({i \in 1..k : ~HasArtist(search[i])})
    /\ PairDone =>
          /\ \A i \in 1..k : (~HasArtist(search[i]) /\ i < Len(search)) => k > i
          /\ \A j \in Matching :
                (\A i \in 1..(j - 1) : i \notin Matching) =>
                    Added # {} /\ Last(musicTracks) = search[j]

C9_Witness ==
    /\ PairDone /\ mpc = "loop" /\ search = <<"t4", "t2">> /\ skipped = 1
    /\ k = 2 /\ Added # {} /\ Last(musicTracks) = "t2"

\* C10: the target calls of one create_plex_playlist are the lookup first, a
\* delete only right after a successful lookup, and a create that is issued at
\* most once and is the last call.
C10_CreateOnceAndLast ==
    /\ \A i \in DOMAIN calls : calls[i][1] = "lookup" <=> i = 1
    /\ \A i \in CallsOf("delete") : i = 2 /\ calls[1] = <<"lookup", "ok">>
    /\ \A i \in CallsOf("create") : i = Len(calls)
    /\ Cardinality(CallsOf("create")) <= 1

====
